---- MODULE Spec2Model ----
(***************************************************************************)
(* Model of the agenda bot: intent routing (nlp.py), the event store       *)
(* (db.py), the reminder scheduler (scheduler.py) and the message handlers *)
(* with their per-user pending disambiguation (main.py).                   *)
(*                                                                         *)
(* A text is a sequence of words (the whitespace-separated tokens of the   *)
(* message).  Instants are integers: epoch seconds (UTC) for timestamps,   *)
(* and seconds of Europe/Rome wall-clock time for localized datetimes.     *)
(***************************************************************************)
EXTENDS Integers, Sequences, FiniteSets, Bags, TLC

VARIABLES
    events,     \* rows of table events (db.py SCHEMA)
    next_id,    \* the AUTOINCREMENT counter of events.id
    user_data,  \* context.user_data: user id -> {PENDING_KEY: ...} (absent = no key)
    jobs,       \* the jobs held by REM_SCHED.scheduler (a bag: add_job never dedups)
    now,        \* the current instant, epoch seconds UTC
    update,     \* the last update handled: [user, chat, text]
    reply,      \* what the bot sent while handling it ("" = nothing sent)
    intent      \* the last value returned by detect_intent

vars == <<events, next_id, user_data, jobs, now, update, reply, intent>>

-----------------------------------------------------------------------------
(* Generic helpers *)

Min(a, b) == IF a < b THEN a ELSE b

Abs(x) == IF x < 0 THEN -x ELSE x

Range(s) == {s[i] : i \in DOMAIN s}

RECURSIVE SelectIdx(_, _, _)
\* the subsequence of s at the positions not in drop
SelectIdx(s, drop, i) ==
    IF i > Len(s) THEN <<>>
    ELSE IF i \in drop THEN SelectIdx(s, drop, i + 1)
    ELSE <<s[i]>> \o SelectIdx(s, drop, i + 1)

Without(s, drop) == SelectIdx(s, drop, 1)

-----------------------------------------------------------------------------
(* nlp.py: words, case *)

INTENT_ADD == "add"
INTENT_RECAP == "recap"
INTENT_REMOVE == "remove"
INTENT_MOVE == "move"
INTENT_HELP == "help"
INTENT_UNKNOWN == "unknown"

\* the bindings in force when detect_intent runs (the later assignments win)
RECAP_KWS == {<<"recap">>, <<"riepilogo">>, <<"mostra">>, <<"lista">>, <<"prossimi", "impegni">>}
ADD_KWS == {<<"metti">>, <<"aggiungi">>, <<"inserisci">>, <<"crea">>, <<"ricorda">>, <<"ricordami">>}
MOVE_KWS == {<<"sposta">>, <<"rimanda">>, <<"posticipa">>, <<"anticipa">>, <<"modifica">>}
REMOVE_KWS == {<<"rimuovi">>, <<"cancella">>, <<"elimina">>}
HELP_KWS == {<<"/help">>, <<"aiuto">>}

\* words of the vocabulary that differ only by the case of their first letter
CasePairs ==
    { <<"visita", "Visita">>, <<"visite", "Visite">>, <<"budget", "Budget">>,
      <<"evento", "Evento">>,
      <<"metti", "Metti">>, <<"sposta", "Sposta">>, <<"rimuovi", "Rimuovi">>,
      <<"recap", "Recap">>, <<"aiuto", "Aiuto">>, <<"agenda", "Agenda">>,
      <<"in", "In">>, <<"a", "A">>, <<"alle", "Alle">>,
      <<"ricordami", "Ricordami">>, <<"spostare", "Spostare">>,
      <<"ciao", "Ciao">> }

\* str.lower() on one word
LowerWord(w) ==
    IF \E p \in CasePairs : p[2] = w
    THEN (CHOOSE p \in CasePairs : p[2] = w)[1]
    ELSE w

\* str.title() on one word (digits and punctuation have no case)
TitleWord(w) ==
    IF \E p \in CasePairs : p[1] = w
    THEN (CHOOSE p \in CasePairs : p[1] = w)[2]
    ELSE w

Lower(t) == [i \in DOMAIN t |-> LowerWord(t[i])]

Title(t) == [i \in DOMAIN t |-> TitleWord(t[i])]

\* proper substrings among the vocabulary: <<k, w>> when k occurs inside the word w
Infix == { <<"ricorda", "ricordami">>, <<"sposta", "spostare">> }

\* Python's `k in w` for a one-word k and a word w
InWord(k, w) == w = k \/ <<k, w>> \in Infix

\* Python's `k in t` for a keyword k (one or more words) and a text t
KwIn(k, t) ==
    \E i \in 1..(Len(t) - Len(k) + 1) :
        \A j \in 1..Len(k) : InWord(k[j], t[i + j - 1])

METTI_VERBS == {"metti", "aggiungi", "inserisci", "crea"}

\* METTI_IN_AGENDA_RE matches at position i of the lower-cased words l: how many words
MettiAt(l, i) ==
    IF i + 2 <= Len(l) /\ l[i] \in METTI_VERBS /\ l[i + 1] = "in" /\ l[i + 2] = "agenda"
    THEN 3
    ELSE IF i + 1 <= Len(l) /\ l[i] \in METTI_VERBS /\ l[i + 1] = "agenda" THEN 2
    ELSE 0

\* the positions covered by the matches of METTI_IN_AGENDA_RE (IGNORECASE, \b-delimited)
MettiSpans(l) == UNION {i..(i + MettiAt(l, i) - 1) : i \in DOMAIN l}

METTI_IN_AGENDA_RE_search(l) == \E i \in DOMAIN l : MettiAt(l, i) > 0

AnyKw(kws, t) == \E k \in kws : KwIn(k, t)

IntentMoveFirst(t) ==
    IF AnyKw(MOVE_KWS, t) THEN INTENT_MOVE
    ELSE IF AnyKw(REMOVE_KWS, t) THEN INTENT_REMOVE
    ELSE IF METTI_IN_AGENDA_RE_search(t) \/ AnyKw(ADD_KWS, t) THEN INTENT_ADD
    ELSE IF AnyKw(RECAP_KWS, t) \/ t \in {<<"agenda">>, <<"agenda?">>} THEN INTENT_RECAP
    ELSE INTENT_UNKNOWN

\* detect_intent on t = text.lower().strip()
IntentOf(t) ==
    IF METTI_IN_AGENDA_RE_search(t) \/ AnyKw(ADD_KWS, t) THEN INTENT_ADD
    ELSE IF AnyKw(MOVE_KWS, t) THEN INTENT_MOVE
    ELSE IF AnyKw(REMOVE_KWS, t) THEN INTENT_REMOVE
    ELSE IF AnyKw(RECAP_KWS, t) \/ t \in {<<"agenda">>, <<"agenda?">>} THEN INTENT_RECAP
    ELSE INTENT_UNKNOWN

detect_intent_move_first(text) == IntentMoveFirst(Lower(text))

detect_intent(text) == IntentOf(Lower(text))

-----------------------------------------------------------------------------
(* nlp.py: date/time extraction *)

None == -1                \* Python's None for an Optional[datetime]

ROME_TZ == 3600           \* Europe/Rome is UTC+1 around the model's epoch (CET)

SecondsPerDay == 86400

SecondsPerHour == 3600

DefaultHour == 9

\* a localized (Europe/Rome) datetime is kept as wall-clock seconds since
\* 01/01/1970 00:00 local; int(dt.astimezone(pytz.UTC).timestamp())
timestamp(dt) == dt - ROME_TZ

\* datetime.fromtimestamp(ts, tz=pytz.UTC).astimezone(ROME_TZ)
fromtimestamp(ts) == ts + ROME_TZ

hour(dt) == (dt % SecondsPerDay) \div SecondsPerHour

minute(dt) == (dt % SecondsPerHour) \div 60

\* the date words of the vocabulary, with the local midnight they denote
DateWords == {"01/01/1970", "02/01/1970"}

DateOf(w) == IF w = "01/01/1970" THEN 0 ELSE SecondsPerDay

\* a bare hour H, and H:MM, with the seconds after midnight they denote
BareHours == {"0", "9"}

HourMinutes == {"0:00", "1:00", "9:00", "9:30", "10:30"}

ClockWords == BareHours \cup HourMinutes

ClockOf(w) ==
    CASE w \in {"0", "0:00"} -> 0
      [] w = "1:00" -> SecondsPerHour
      [] w \in {"9", "9:00"} -> 9 * SecondsPerHour
      [] w = "9:30" -> 9 * SecondsPerHour + 1800
      [] w = "10:30" -> 10 * SecondsPerHour + 1800

ClockIntro == {"alle", "ore"}

\* position i starts a clock expression ("alle H", "alle H:MM", or a lone "H:MM"):
\* how many words it takes
ClockAt(l, i) ==
    IF i > Len(l) THEN 0
    ELSE IF l[i] \in HourMinutes THEN 1
    ELSE IF l[i] \in ClockIntro /\ i + 1 <= Len(l) /\ l[i + 1] \in ClockWords THEN 2
    ELSE 0

ClockValueAt(l, i) ==
    IF ClockAt(l, i) = 0 THEN 0
    ELSE IF ClockAt(l, i) = 1 THEN ClockOf(l[i])
    ELSE ClockOf(l[i + 1])

\* the positions where a date expression starts
DateStarts(l) == {i \in DOMAIN l : l[i] \in DateWords \/ ClockAt(l, i) > 0}

\* a clock time c with no date: today, or tomorrow when it has passed already
NextAt(today, c, now_dt) ==
    IF today + c >= now_dt THEN today + c ELSE today + SecondsPerDay + c

\* the date expression starting at position p: a date, a clock time, or both side by side
DateExprAt(l, p, now_dt) ==
    IF l[p] \in DateWords THEN DateOf(l[p]) + ClockValueAt(l, p + 1)
    ELSE IF p + ClockAt(l, p) <= Len(l) /\ l[p + ClockAt(l, p)] \in DateWords
    THEN DateOf(l[p + ClockAt(l, p)]) + ClockValueAt(l, p)
    ELSE NextAt(now_dt - (now_dt % SecondsPerDay), ClockValueAt(l, p), now_dt)

FirstDate(l, starts, now_dt) ==
    IF starts = {} THEN None
    ELSE DateExprAt(l, CHOOSE i \in starts : \A j \in starts : i <= j, now_dt)

\* dateparser.search.search_dates(text, languages=['it'],
\*     settings={'PREFER_DATES_FROM': 'future'})[0][1], or None when nothing is
\* found: the first date expression of the text.  A date alone is at midnight.
search_dates(text, now_dt) == FirstDate(Lower(text), DateStarts(Lower(text)), now_dt)

has_time_bare_hour_too(text) == \E i \in DOMAIN text : ClockAt(Lower(text), i) > 0

\* re.search(r"\b\d{1,2}(:\d{2})\b", text): the minutes are not optional
has_time(text) == \E i \in DOMAIN text : text[i] \in HourMinutes

\* dt.replace(hour=9, minute=0, second=0, microsecond=0)
AtDefaultHour(dt) == dt - (dt % SecondsPerDay) + DefaultHour * SecondsPerHour

\* nlp.py:59-71, on dt = results[0][1] (None when results is empty)
DefaultTime(dt, text) ==
    IF dt = None THEN None
    ELSE IF hour(dt) = 0 /\ minute(dt) = 0 /\ ~has_time(text) THEN AtDefaultHour(dt)
    ELSE dt

extract_datetime(text, now_dt) == DefaultTime(search_dates(text, now_dt), text)

-----------------------------------------------------------------------------
(* nlp.py: title extraction *)

StripVerbs ==
    {"sposta", "rimanda", "posticipa", "anticipa", "modifica", "rimuovi", "cancella",
     "elimina", "recap", "riepilogo", "mostra", "lista"}

TemporalStart ==
    {"oggi", "domani", "dopodomani", "stamattina", "pomeriggio", "stasera", "tra",
     "fra", "in"}

TemporalStop == {"alle", "alla", "il", "la", "di"}

\* (the accented final letter of the first five is written as a plain i)
Weekdays ==
    {"lunedi", "martedi", "mercoledi", "giovedi", "venerdi", "sabato", "domenica"}

\* the first TemporalStop word after position i, or the end of the text
StopAfter(l, i) ==
    IF \E j \in (i + 1)..Len(l) : l[j] \in TemporalStop
    THEN CHOOSE j \in (i + 1)..Len(l) :
             l[j] \in TemporalStop /\ \A k \in (i + 1)..(j - 1) : l[k] \notin TemporalStop
    ELSE Len(l) + 1

RECURSIVE TemporalSpans(_, _)
\* the positions removed by the third substitution of strip_date_from_title, scanning
\* from position i: from a TemporalStart word up to (not including) the next
\* TemporalStop word, or to the end of the text
TemporalSpans(l, i) ==
    IF i > Len(l) THEN {}
    ELSE IF l[i] \in TemporalStart
    THEN (i..(StopAfter(l, i) - 1)) \cup TemporalSpans(l, StopAfter(l, i))
    ELSE TemporalSpans(l, i + 1)

\* the positions removed by r"\b(?:alle|ore|h)\s*\d{1,2}(?::\d{2})?\b"
ClockSpans(l) ==
    UNION { IF l[i] \in {"alle", "ore", "h"} /\ i + 1 <= Len(l) /\ l[i + 1] \in ClockWords
            THEN {i, i + 1} ELSE {} : i \in DOMAIN l }

\* the six substitutions of strip_date_from_title, in order
SubMetti(t) == Without(t, MettiSpans(Lower(t)))

SubVerbs(t) == Without(t, {i \in DOMAIN t : LowerWord(t[i]) \in StripVerbs})

SubTemporal(t) == Without(t, TemporalSpans(Lower(t), 1))

SubClock(t) == Without(t, ClockSpans(Lower(t)))

SubWeekdays(t) == Without(t, {i \in DOMAIN t : LowerWord(t[i]) \in Weekdays})

SubDates(t) == Without(t, {i \in DOMAIN t : t[i] \in DateWords})

strip_date_from_title(text) ==
    Title(SubDates(SubWeekdays(SubClock(SubTemporal(SubVerbs(SubMetti(text)))))))

\* what is left of word w once the keyword inside it is replaced by a blank
InfixRest(w) ==
    CASE w = "spostare" -> <<"re">>
      [] w = "ricordami" -> <<"mi">>
      [] OTHER -> <<>>

RECURSIVE ReplaceKws(_, _, _)
\* for kw in kws: s = s.replace(kw, " "), then the whitespace collapsed
ReplaceKws(l, kws, i) ==
    IF i > Len(l) THEN <<>>
    ELSE (IF \E k \in kws : Len(k) = 1 /\ InWord(k[1], l[i]) THEN InfixRest(l[i])
          ELSE <<l[i]>>)
         \o ReplaceKws(l, kws, i + 1)

Separators(l) == {i \in 2..(Len(l) - 1) : l[i] \in {"a", "per", "al"}}

\* re.split(r"\b a | per | al ", lower, maxsplit=1)[0]
BeforeSeparator(l) ==
    IF Separators(l) = {} THEN l
    ELSE SubSeq(l, 1, (CHOOSE i \in Separators(l) : \A j \in Separators(l) : i <= j) - 1)

\* <<title_guess, new_dt>>; an empty title_guess stands for None
extract_move_targets(text, now_dt) ==
    <<Title(ReplaceKws(BeforeSeparator(Lower(text)), MOVE_KWS, 1)),
      extract_datetime(text, now_dt)>>

RemoveTargetOf(lower, now_dt) ==
    <<Title(strip_date_from_title(lower)), extract_datetime(lower, now_dt)>>

\* <<title_guess, dt>>; an empty title_guess stands for None
extract_remove_target(text, now_dt) ==
    RemoveTargetOf(ReplaceKws(Lower(text), REMOVE_KWS, 1), now_dt)

-----------------------------------------------------------------------------
(* db.py: the events table.  A row is [id, user_id, chat_id, title, start_ts];
   created_ts and updated_ts are written and never read, and are left out. *)

Earliest(rows) ==
    CHOOSE r \in rows :
        \A o \in rows : r.start_ts < o.start_ts \/ (r.start_ts = o.start_ts /\ r.id <= o.id)

\* SELECT id, title, start_ts
Row(r) == <<r.id, r.title, r.start_ts>>

\* the rows of a set, as (id, title, start_ts) tuples, ORDER BY start_ts ASC
\* (rows of equal start_ts come out in rowid order, as SQLite's index scan gives them)
RECURSIVE OrderByStart(_)
OrderByStart(rows) ==
    IF rows = {} THEN <<>>
    ELSE <<Row(Earliest(rows))>> \o OrderByStart(rows \ {Earliest(rows)})

add_event(rows, id, user_id, chat_id, title, start_ts) ==
    rows \cup {[id |-> id, user_id |-> user_id, chat_id |-> chat_id, title |-> title,
                start_ts |-> start_ts]}

\* a SELECT with no WHERE user_id=?
list_all_future_any_owner(rows, user_id, now_ts) ==
    OrderByStart({r \in rows : r.start_ts >= now_ts})

list_all_future(rows, user_id, now_ts) ==
    OrderByStart({r \in rows : r.user_id = user_id /\ r.start_ts >= now_ts})

update_event_time(rows, event_id, new_start_ts) ==
    {IF r.id = event_id THEN [r EXCEPT !.start_ts = new_start_ts] ELSE r : r \in rows}

\* a DELETE that matches no row
remove_event_no_row(rows, event_id) == rows

remove_event(rows, event_id) == {r \in rows : r.id # event_id}

\* SQL's  title LIKE '%' || q || '%'  (case-insensitive; a % in q matches anything)
LikeLower(lq, lt) ==
    \/ \A j \in DOMAIN lq : lq[j] = "%"
    \/ \E i \in 1..(Len(lt) - Len(lq) + 1) :
           \A j \in 1..Len(lq) : lq[j] = "%" \/ InWord(lq[j], lt[i + j - 1])

Like(q, title) == LikeLower(Lower(q), Lower(title))

find_candidates_by_title(rows, user_id, title_query, now_ts) ==
    OrderByStart({r \in rows : /\ r.user_id = user_id
                               /\ r.start_ts >= now_ts
                               /\ Like(title_query, r.title)})

-----------------------------------------------------------------------------
(* main.py: find_best_matches *)

MatchThreshold == 60

MatchLimit == 5

\* the similarity of two words, 0..100: 100 * 2 * (letters in common, in order) \div
\* (letters of both); near-identical words of the vocabulary score high
WordRatio(a, b) ==
    IF a = b THEN 100
    ELSE IF {a, b} = {"visita", "visite"} THEN 83
    ELSE 0

RECURSIVE SumRatio(_, _, _, _)
SumRatio(s, l, k, i) ==
    IF i > Len(s) THEN 0
    ELSE WordRatio(s[i], l[k + i - 1]) + SumRatio(s, l, k, i + 1)

\* the best similarity of s with a window of l of the same length (Len(s) <= Len(l))
BestWindow(s, l) ==
    CHOOSE x \in {SumRatio(s, l, k, 1) \div Len(s) : k \in 1..(Len(l) - Len(s) + 1)} :
        \A k \in 1..(Len(l) - Len(s) + 1) : x >= SumRatio(s, l, k, 1) \div Len(s)

\* rapidfuzz.fuzz.partial_ratio(s1, s2): the best similarity of the shorter text with
\* a window of the longer one of the same length
partial_ratio(s1, s2) ==
    IF Len(s1) = 0 \/ Len(s2) = 0 THEN 0
    ELSE IF Len(s1) <= Len(s2) THEN BestWindow(s1, s2)
    ELSE BestWindow(s2, s1)

\* scored.sort(reverse=True): tuples (score, eid, title, start_ts), greatest first
Greatest(scored) ==
    CHOOSE t \in scored : \A o \in scored : t[1] > o[1] \/ (t[1] = o[1] /\ t[2] >= o[2])

RECURSIVE SortReverse(_)
SortReverse(scored) ==
    IF scored = {} THEN <<>>
    ELSE <<Greatest(scored)>> \o SortReverse(scored \ {Greatest(scored)})

\* the (score, eid, title, start_ts) of the events that clear the threshold
Scored(evs, q) ==
    {<<partial_ratio(q, Lower(e[2])), e[1], e[2], e[3]>> :
         e \in {x \in Range(evs) : partial_ratio(q, Lower(x[2])) >= MatchThreshold}}

\* [(eid, title, start_ts) for score, eid, title, start_ts in scored[:limit]]
Top(sorted, limit) ==
    [i \in 1..Min(limit, Len(sorted)) |-> <<sorted[i][2], sorted[i][3], sorted[i][4]>>]

find_best_matches(rows, user_id, query, now_ts) ==
    Top(SortReverse(Scored(list_all_future(rows, user_id, now_ts), Lower(query))), MatchLimit)

-----------------------------------------------------------------------------
(* scheduler.py *)

LeadMinutes == 10

misfire_grace_time == 60

Job(chat_id, title, event_ts) ==
    [chat_id |-> chat_id, title |-> title, event_ts |-> event_ts,
     run_date |-> fromtimestamp(event_ts) - LeadMinutes * 60]

schedule_event_reminder_or_equal(js, chat_id, title, event_ts, now_ts) ==
    IF Job(chat_id, title, event_ts).run_date < fromtimestamp(now_ts) THEN js
    ELSE js (+) SetToBag({Job(chat_id, title, event_ts)})

\* a scheduler that keeps one job per chat and title, retracting the earlier one
schedule_event_reminder_retracting(js, chat_id, title, event_ts, now_ts) ==
    IF Job(chat_id, title, event_ts).run_date <= fromtimestamp(now_ts) THEN js
    ELSE [j \in {x \in BagToSet(js) : x.chat_id # chat_id \/ x.title # title} |-> js[j]]
             (+) SetToBag({Job(chat_id, title, event_ts)})

\* a scheduler that registers nothing
schedule_event_reminder_dropped(js, chat_id, title, event_ts, now_ts) == js

\* ReminderScheduler.schedule_event_reminder: the job set after the call
\* (remind_dt is Job(...).run_date, now is fromtimestamp(now_ts))
schedule_event_reminder(js, chat_id, title, event_ts, now_ts) ==
    IF Job(chat_id, title, event_ts).run_date <= fromtimestamp(now_ts) THEN js
    ELSE js (+) SetToBag({Job(chat_id, title, event_ts)})

-----------------------------------------------------------------------------
(* Bounds and inputs *)

MaxEvents == 2      \* rows ever inserted
BothEvents == 3     \* rows ever inserted, where two users write
MaxJobs == 2        \* jobs held at once
MaxTicks == 1       \* clock steps
CapEvents == 6      \* rows ever inserted, where the cap on candidates is examined
MaxWords == 3       \* words of a text given to the classifier alone
ChatEvents == 4     \* rows ever inserted, where a user writes in two chats
ChatJobs == 1       \* jobs held at once, where a user writes in two chats

OwnerEvents == 3    \* events ever added, where two users remove and move

OwnerJobs == 1      \* jobs held at once, where two users remove and move

Users == {1, 2}

\* a user writes in their private chat (its id is the user's id)
Conversations == {<<1, 1>>}

BothConversations == {<<u, u>> : u \in Users}

\* user 1 in their private chat and in group chat 3, user 2 in group chat 3
ChatConversations == {<<1, 1>>, <<1, 3>>, <<2, 3>>}

\* 02/01/1970 08:40 Europe/Rome
Now0 == timestamp(SecondsPerDay + 8 * SecondsPerHour + 40 * 60)

TickSeconds == LeadMinutes * 60

Inbox ==
    { <<"metti", "in", "agenda", "02/01/1970", "visita">>,
      <<"metti", "in", "agenda", "02/01/1970", "alle", "9:30", "visita">>,
      <<"metti", "in", "agenda", "visita">>,
      <<"recap">>,
      <<"rimuovi", "visita">>,
      <<"rimuovi", "02/01/1970", "alle", "9:30">>,
      <<"rimuovi", "budget">>,
      <<"sposta", "visita", "a", "02/01/1970", "alle", "10:30">>,
      <<"sposta", "visita", "a", "01/01/1970", "alle", "1:00">>,
      <<"sposta", "visita">>,
      <<"aiuto">>, <<"/help">>,
      <<"1">>, <<"2">>, <<"3">>, <<"9">> }

BothInbox ==
    { <<"metti", "in", "agenda", "02/01/1970", "visita">>,
      <<"metti", "in", "agenda", "02/01/1970", "alle", "9:30", "visita">>,
      <<"rimuovi", "visita">>,
      <<"/help">>,
      <<"1">> }

ChatInbox ==
    { <<"metti", "in", "agenda", "02/01/1970", "visita">>,
      <<"rimuovi", "visita">>,
      <<"/help">>,
      <<"1">> }

\* add requests that name a date alone, a bare hour, and H:MM
DateInbox ==
    { <<"metti", "in", "agenda", "02/01/1970", "visita">>,
      <<"metti", "in", "agenda", "02/01/1970", "alle", "0", "visita">>,
      <<"metti", "in", "agenda", "02/01/1970", "alle", "0:00", "visita">>,
      <<"metti", "in", "agenda", "02/01/1970", "alle", "9", "visita">>,
      <<"metti", "in", "agenda", "02/01/1970", "alle", "9:30", "visita">>,
      <<"rimuovi", "visita">>,
      <<"/help">>,
      <<"1">> }

\* what two users with events of the same title send: add, remove by title and by
\* time, move, a choice
OwnerInbox ==
    { <<"metti", "in", "agenda", "02/01/1970", "visita">>,
      <<"rimuovi", "visita">>,
      <<"rimuovi", "02/01/1970", "alle", "9:30">>,
      <<"sposta", "visita", "a", "02/01/1970", "alle", "10:30">>,
      <<"/help">>,
      <<"1">> }

CapInbox ==
    { <<"metti", "in", "agenda", "02/01/1970", "visita">>,
      <<"rimuovi", "02/01/1970", "alle", "9:30">>,
      <<"rimuovi", "%">>,
      <<"rimuovi", "visita">>,
      <<"/help">>,
      <<"1">> }

IntentWords ==
    {"metti", "in", "agenda", "sposta", "Sposta", "rimuovi", "recap", "aiuto", "visita"}

RECURSIVE TextsOver(_, _)
\* the texts of at most n words of W
TextsOver(W, n) ==
    IF n = 0 THEN {<<>>}
    ELSE TextsOver(W, n - 1) \cup {Append(t, w) : t \in TextsOver(W, n - 1), w \in W}

Message(u, c, text) == [kind |-> "message", user |-> u, chat |-> c, text |-> text]

NoMessage(kind) == [kind |-> kind, user |-> 0, chat |-> 0, text |-> <<>>]

\* every text the state machine is given, and every instant its clock shows
Texts == Inbox \cup BothInbox \cup CapInbox \cup ChatInbox \cup DateInbox \cup OwnerInbox

Clock == {fromtimestamp(Now0 + k * TickSeconds) : k \in 0..MaxTicks}

\* What nlp.py returns for a text (at an instant): the functions are pure, so each
\* result is worked out once per text and instant and looked up by the handlers.
detect_intent_of == [t \in Texts |-> detect_intent(t)]

extract_datetime_of == [t \in Texts, n \in Clock |-> extract_datetime(t, n)]

strip_date_from_title_of == [t \in Texts |-> strip_date_from_title(t)]

extract_move_targets_of == [t \in Texts, n \in Clock |-> extract_move_targets(t, n)]

extract_remove_target_of == [t \in Texts, n \in Clock |-> extract_remove_target(t, n)]

-----------------------------------------------------------------------------
(* main.py: the handlers *)

WindowSeconds == 1800

MaxChoice == 5

\* context.user_data[u] without PENDING_KEY
NoPending == [type |-> "", candidates |-> <<>>, new_ts |-> None]

\* a pending record that loses the target instant of a move
PendingWithoutTarget(type, candidates, new_ts) ==
    [type |-> type, candidates |-> candidates, new_ts |-> None]

Pending(type, candidates, new_ts) ==
    [type |-> type, candidates |-> candidates, new_ts |-> new_ts]

\* context.user_data.pop(PENDING_KEY, None)
PopPending(ud, u) == [ud EXCEPT ![u] = NoPending]

KeepPending(ud, u) == ud

\* a pop that empties the user_data of every user
PopEveryPending(ud, u) == [x \in DOMAIN ud |-> NoPending]

\* PENDING_KEY once a valid choice has been handled (main.py:248, 257)
AfterChoice(ud, u) == PopPending(ud, u)

\* an out-of-range branch that gives the choice up
ForgetPending(ud, u) == [ud EXCEPT ![u] = NoPending]

\* PENDING_KEY once an out-of-range choice has been answered (main.py:233-235)
AfterInvalidChoice(ud, u) == ud

\* `candidates = find_best_matches(...)`, and find_candidates_by_title(...) if empty
OrElse(best, rows, u, title_guess, now_ts) ==
    IF best # <<>> THEN best ELSE find_candidates_by_title(rows, u, title_guess, now_ts)

\* title_guess -> candidates by text (main.py:146-150, 190-194)
ByText(rows, u, title_guess, now_ts) ==
    IF title_guess = <<>> THEN <<>>
    ELSE OrElse(find_best_matches(rows, u, title_guess, now_ts), rows, u, title_guess, now_ts)

InWindow(all_upcoming, t0) ==
    Without(all_upcoming,
            {i \in DOMAIN all_upcoming : ~(Abs(all_upcoming[i][3] - t0) <= WindowSeconds)})

\* the events within WindowSeconds of t0 (main.py:153-157)
ByTime(rows, u, t0, now_ts) == InWindow(list_all_future(rows, u, now_ts), t0)

ByTextOnly(by_text, rows, u, dt, now_ts) == by_text

\* main.py:152: the time path only when the text path gave nothing and dt is set
OrByTime(by_text, rows, u, dt, now_ts) ==
    IF by_text = <<>> /\ dt # None THEN ByTime(rows, u, timestamp(dt), now_ts)
    ELSE by_text

\* the candidates of handle_remove for target = (title_guess, dt)
RemoveCandidates(rows, u, target, now_ts) ==
    OrByTime(ByText(rows, u, target[1], now_ts), rows, u, target[2], now_ts)

TitleOrDefault(stripped) == IF stripped # <<>> THEN stripped ELSE <<"Evento">>

\* an add that, finding no date, stores the event at the current instant
handle_add_undated(u, c, text) ==
    /\ events' = add_event(events, next_id, u, c,
                           TitleOrDefault(strip_date_from_title_of[text]), now)
    /\ next_id' = next_id + 1
    /\ reply' = IF extract_datetime_of[text, fromtimestamp(now)] = None
                THEN "no_date" ELSE "added"
    /\ UNCHANGED <<user_data, jobs>>

handle_add(u, c, text) ==
    \E dt \in {extract_datetime_of[text, fromtimestamp(now)]},
       title \in {TitleOrDefault(strip_date_from_title_of[text])} :
        IF dt = None
        THEN /\ reply' = "no_date"
             /\ UNCHANGED <<events, next_id, user_data, jobs>>
        ELSE /\ events' = add_event(events, next_id, u, c, title, timestamp(dt))
             /\ next_id' = next_id + 1
             /\ jobs' = schedule_event_reminder(jobs, c, title, timestamp(dt), now)
             /\ reply' = "added"
             /\ UNCHANGED user_data

handle_recap(u, c, text) ==
    /\ reply' = IF list_all_future(events, u, now) = <<>> THEN "agenda_empty" ELSE "recap"
    /\ UNCHANGED <<events, next_id, user_data, jobs>>

handle_remove(u, c, text) ==
    \E candidates \in {RemoveCandidates(events, u,
                           extract_remove_target_of[text, fromtimestamp(now)], now)} :
        IF candidates = <<>>
        THEN /\ reply' = "remove_not_found"
             /\ UNCHANGED <<events, next_id, user_data, jobs>>
        ELSE IF Len(candidates) > 1
        THEN /\ user_data' = [user_data EXCEPT ![u] = Pending("remove", candidates, None)]
             /\ reply' = "which_remove"
             /\ UNCHANGED <<events, next_id, jobs>>
        ELSE /\ events' = remove_event(events, candidates[1][1])
             /\ reply' = "removed"
             /\ UNCHANGED <<next_id, user_data, jobs>>

handle_move(u, c, text) ==
    \E target \in {extract_move_targets_of[text, fromtimestamp(now)]} :
    \E candidates \in {ByText(events, u, target[1], now)} :
        IF target[2] = None
        THEN /\ reply' = "no_new_date"
             /\ UNCHANGED <<events, next_id, user_data, jobs>>
        ELSE IF candidates = <<>>
        THEN /\ reply' = "move_not_found"
             /\ UNCHANGED <<events, next_id, user_data, jobs>>
        ELSE IF Len(candidates) > 1
        THEN /\ user_data' = [user_data EXCEPT
                                  ![u] = Pending("move", candidates, timestamp(target[2]))]
             /\ reply' = "which_move"
             /\ UNCHANGED <<events, next_id, jobs>>
        ELSE /\ events' = update_event_time(events, candidates[1][1], timestamp(target[2]))
             /\ jobs' = schedule_event_reminder(jobs, c, candidates[1][2],
                                                timestamp(target[2]), now)
             /\ reply' = "moved"
             /\ UNCHANGED <<next_id, user_data>>

\* int(msg) for a digit-only msg
Digits == <<"1", "2", "3", "4", "5", "6", "7", "8", "9">>

\* msg.isdigit()
IsDigit(text) == Len(text) = 1 /\ text[1] \in Range(Digits) \cup {"0"}

IntOf(msg) == IF msg = "0" THEN 0 ELSE CHOOSE d \in DOMAIN Digits : Digits[d] = msg

handle_numeric_choice(u, c, text) ==
    \E choice \in {IF IsDigit(text) THEN IntOf(text[1]) ELSE 0},
       pending \in {user_data[u]} :
        IF ~IsDigit(text) \/ pending = NoPending
        THEN /\ reply' = ""
             /\ UNCHANGED <<events, next_id, user_data, jobs>>
        ELSE IF choice < 1 \/ choice > Min(MaxChoice, Len(pending.candidates))
        THEN /\ reply' = "invalid_choice"
             /\ user_data' = AfterInvalidChoice(user_data, u)
             /\ UNCHANGED <<events, next_id, jobs>>
        ELSE IF pending.type = "remove"
        THEN /\ events' = remove_event(events, pending.candidates[choice][1])
             /\ reply' = "removed"
             /\ user_data' = AfterChoice(user_data, u)
             /\ UNCHANGED <<next_id, jobs>>
        ELSE IF pending.type = "move" /\ pending.new_ts \in {None, 0}
        THEN /\ reply' = "no_new_date_pending"
             /\ user_data' = AfterChoice(user_data, u)
             /\ UNCHANGED <<events, next_id, jobs>>
        ELSE IF pending.type = "move"
        THEN /\ events' = update_event_time(events, pending.candidates[choice][1],
                                            pending.new_ts)
             /\ jobs' = schedule_event_reminder(jobs, c, pending.candidates[choice][2],
                                                pending.new_ts, now)
             /\ reply' = "moved"
             /\ user_data' = AfterChoice(user_data, u)
             /\ UNCHANGED next_id
        ELSE /\ reply' = ""
             /\ user_data' = AfterChoice(user_data, u)
             /\ UNCHANGED <<events, next_id, jobs>>

fallback_chat(u, c, text) ==
    \E i \in {detect_intent_of[text]} :
        /\ intent' = i
        /\ CASE i = INTENT_ADD -> handle_add(u, c, text)
             [] i = INTENT_RECAP -> handle_recap(u, c, text)
             [] i = INTENT_REMOVE -> handle_remove(u, c, text)
             [] i = INTENT_MOVE -> handle_move(u, c, text)
             [] i = INTENT_HELP -> /\ reply' = "start"
                                   /\ UNCHANGED <<events, next_id, user_data, jobs>>
             [] OTHER -> /\ reply' = "unknown"
                         /\ UNCHANGED <<events, next_id, user_data, jobs>>

-----------------------------------------------------------------------------
(* main.py: boot, dispatch; the scheduler's timer *)

RECURSIVE ScheduleAll(_, _, _)
\* for event_id, chat_id, title, start_ts in rows: schedule_event_reminder(...)
ScheduleAll(js, rows, now_ts) ==
    IF rows = {} THEN js
    ELSE ScheduleAll(schedule_event_reminder(js, Earliest(rows).chat_id, Earliest(rows).title,
                                             Earliest(rows).start_ts, now_ts),
                     rows \ {Earliest(rows)}, now_ts)

\* a recovery that re-submits the rows of one owner only
schedule_existing_reminders_one_owner(rows, now_ts) ==
    ScheduleAll(EmptyBag, {r \in rows : r.start_ts >= now_ts /\ r.user_id = 1}, now_ts)

\* the job set REM_SCHED holds once schedule_existing_reminders has run at boot
schedule_existing_reminders(rows, now_ts) ==
    ScheduleAll(EmptyBag, {r \in rows : r.start_ts >= now_ts}, now_ts)

Commands == {"/start", "/help", "/ping", "/debug"}

\* filters.COMMAND
IsCommand(text) == Len(text) > 0 /\ text[1] \in Commands

\* filters.Regex(r"^[1-5]$")
IsChoiceText(text) == Len(text) = 1 /\ text[1] \in {"1", "2", "3", "4", "5"}

-----------------------------------------------------------------------------
(* The state machine *)

Init ==
    /\ events = {}
    /\ next_id = 1
    /\ user_data = [u \in Users |-> NoPending]
    /\ jobs = EmptyBag
    /\ now = Now0
    /\ update = NoMessage("boot")
    /\ reply = ""
    /\ intent = ""

\* CommandHandler("start" | "help" | "ping" | "debug")
Command(u, c, text) ==
    /\ IsCommand(text)
    /\ update' = Message(u, c, text)
    /\ reply' = CASE text[1] \in {"/start", "/help"} -> "start"
                  [] text[1] = "/ping" -> "pong"
                  [] text[1] = "/debug" -> "debug"
    /\ intent' = ""
    /\ UNCHANGED <<events, next_id, user_data, jobs, now>>

\* MessageHandler(filters.Regex(r"^[1-5]$"), handle_numeric_choice)
NumericChoice(u, c, text, max_jobs) ==
    /\ ~IsCommand(text)
    /\ IsChoiceText(text)
    /\ update' = Message(u, c, text)
    /\ intent' = ""
    /\ handle_numeric_choice(u, c, text)
    /\ BagCardinality(jobs') <= max_jobs
    /\ UNCHANGED now

\* MessageHandler(filters.TEXT & ~filters.COMMAND, fallback_chat)
FallbackChat(u, c, text, max_events, max_jobs) ==
    /\ ~IsCommand(text)
    /\ ~IsChoiceText(text)
    /\ update' = Message(u, c, text)
    /\ fallback_chat(u, c, text)
    /\ next_id' <= max_events + 1
    /\ BagCardinality(jobs') <= max_jobs
    /\ UNCHANGED now

\* time passes
Tick ==
    /\ now < Now0 + MaxTicks * TickSeconds
    /\ now' = now + TickSeconds
    /\ update' = NoMessage("tick")
    /\ reply' = ""
    /\ intent' = ""
    /\ UNCHANGED <<events, next_id, user_data, jobs>>

\* the scheduler runs a job whose run_date has come: scheduler_send(chat_id, text),
\* unless it is later than misfire_grace_time; a DateTrigger job is dropped either way
RunJob(j) ==
    /\ BagIn(j, jobs)
    /\ j.run_date <= fromtimestamp(now)
    /\ jobs' = jobs (-) SetToBag({j})
    /\ reply' = IF fromtimestamp(now) - j.run_date <= misfire_grace_time
                THEN "reminder" ELSE ""
    /\ update' = [kind |-> "job", user |-> 0, chat |-> j.chat_id, text |-> j.title]
    /\ intent' = ""
    /\ UNCHANGED <<events, next_id, user_data, now>>

\* the process restarts: main() builds a new scheduler and user_data, the table stays
Restart ==
    /\ jobs' = schedule_existing_reminders(events, now)
    /\ user_data' = [u \in Users |-> NoPending]
    /\ update' = NoMessage("boot")
    /\ reply' = ""
    /\ intent' = ""
    /\ UNCHANGED <<events, next_id, now>>

Step(convs, inbox, max_events, max_jobs) ==
    \/ \E cv \in convs, text \in inbox : Command(cv[1], cv[2], text)
    \/ \E cv \in convs, text \in inbox : NumericChoice(cv[1], cv[2], text, max_jobs)
    \/ \E cv \in convs, text \in inbox :
           FallbackChat(cv[1], cv[2], text, max_events, max_jobs)
    \/ Tick
    \/ \E j \in BagToSet(jobs) : RunJob(j)
    \/ Restart

\* one user
Next == Step(Conversations, Inbox, MaxEvents, MaxJobs)

Spec == Init /\ [][Next]_vars

\* two users, each in their own chat
NextBoth == Step(BothConversations, BothInbox, BothEvents, BothEvents)

SpecBoth == Init /\ [][NextBoth]_vars

\* one user with up to CapEvents events at the same instant
NextCap == Step(Conversations, CapInbox, CapEvents, CapEvents)

SpecCap == Init /\ [][NextCap]_vars

\* two users, one of them in two chats
NextChats == Step(ChatConversations, ChatInbox, ChatEvents, ChatJobs)

SpecChats == Init /\ [][NextChats]_vars

\* one user who adds events with and without a time of day
NextDates == Step(Conversations, DateInbox, MaxEvents, MaxJobs)

SpecDates == Init /\ [][NextDates]_vars

\* two users, each in their own chat, who add, remove and move
NextOwners == Step(BothConversations, OwnerInbox, OwnerEvents, OwnerJobs)

SpecOwners == Init /\ [][NextOwners]_vars

\* the classifier alone, on every text of at most MaxWords words of IntentWords
InitIntent ==
    /\ events = {}
    /\ next_id = 1
    /\ user_data = [u \in Users |-> NoPending]
    /\ jobs = EmptyBag
    /\ now = Now0
    /\ update \in {Message(1, 1, t) : t \in TextsOver(IntentWords, MaxWords)}
    /\ reply = ""
    /\ intent = ""

Classify ==
    /\ intent = ""
    /\ intent' = detect_intent(update.text)
    /\ UNCHANGED <<events, next_id, user_data, jobs, now, update, reply>>

SpecIntent == InitIntent /\ [][Classify]_vars

-----------------------------------------------------------------------------
(* Properties *)

\* the step handles a text message
Handles == update'.kind = "message"

\* the step handles a digit-only message of a user who holds a pending choice
DigitWhilePending ==
    /\ Handles
    /\ IsDigit(update'.text)
    /\ user_data[update'.user] # NoPending

\* the digit of the message handled and the candidates pending before it
Choice == IntOf(update'.text[1])

Candidates == user_data[update'.user].candidates

ValidChoice == 1 <= Choice /\ Choice <= Min(5, Len(Candidates))

\* C1: while a choice is pending, every digit-only message whose value is outside
\* [1, min(5, k)] is answered with the "invalid choice" reply.
C1_OutOfRangeDigitGetsInvalidChoice ==
    [][(DigitWhilePending /\ ~ValidChoice) => reply' = "invalid_choice"]_vars

\* C2: a digit d in [1, min(5, k)] applies the pending action to the d-th candidate
\* and to no other event (remove deletes it; move sets its start to the stored
\* target, or changes nothing when the stored target is missing), and the pending
\* state is gone afterwards in every case.
C2_ValidChoiceAppliesAndClears ==
    [][(DigitWhilePending /\ ValidChoice) =>
          /\ user_data'[update'.user] = NoPending
          /\ \A u \in Users \ {update'.user} : user_data'[u] = user_data[u]
          /\ user_data[update'.user].type = "remove" =>
                 events' = {r \in events : r.id # Candidates[Choice][1]}
          /\ (user_data[update'.user].type = "move"
              /\ user_data[update'.user].new_ts # 0) =>
                 events' = {IF r.id = Candidates[Choice][1]
                            THEN [r EXCEPT !.start_ts = user_data[update'.user].new_ts]
                            ELSE r : r \in events}
          /\ (user_data[update'.user].type = "move"
              /\ user_data[update'.user].new_ts = 0) =>
                 events' = events]_vars

\* a valid digit has just moved an event, and no choice is pending any more
C2_Witness ==
    /\ update.kind = "message"
    /\ IsChoiceText(update.text)
    /\ reply = "moved"
    /\ user_data[update.user] = NoPending
    /\ \E r \in events : r.start_ts = timestamp(SecondsPerDay + ClockOf("10:30"))

\* C3: once a non-digit message that opens no new disambiguation has been handled
\* while a choice was pending, no choice is pending.
C3_NonDigitMessageClearsPending ==
    [][(/\ Handles
        /\ ~IsDigit(update'.text)
        /\ user_data[update'.user] # NoPending
        /\ reply' \notin {"which_remove", "which_move"})
       => user_data'[update'.user] = NoPending]_vars

\* C4: a pending disambiguation never stores more than 5 candidates.
C4_AtMostFiveCandidatesStored ==
    \A u \in Users : Len(user_data[u].candidates) <= 5

\* the job registered for a row
JobOf(r) ==
    [chat_id |-> r.chat_id, title |-> r.title, event_ts |-> r.start_ts,
     run_date |-> r.start_ts + ROME_TZ - 600]

\* the row inserted or re-timed by the step, when it answers "added" or "moved"
Touched == CHOOSE r \in events' : r \notin events

\* C5: a job is registered if and only if event start - 10 minutes is strictly after
\* now; otherwise the job set is left as it was.  So every job that enters the job
\* set has a fire instant strictly in the future at that moment.
C5_JobIffFireInstantInFuture ==
    [][/\ (Handles /\ reply' \in {"added", "moved"} /\ events' # events) =>
              IF Touched.start_ts - 600 > now
              THEN jobs' = jobs (+) SetToBag({JobOf(Touched)})
              ELSE jobs' = jobs
       /\ \A j \in BagToSet(jobs') :
              (update'.kind = "boot" \/ CopiesIn(j, jobs') > CopiesIn(j, jobs)) =>
                  j.event_ts - 600 > now']_vars

\* an event was added whose reminder instant is exactly now: no job was registered
C5_Witness ==
    /\ update.kind = "message"
    /\ reply = "added"
    /\ \E r \in events : /\ r.id = next_id - 1
                         /\ r.start_ts - 600 = now
                         /\ ~BagIn(JobOf(r), jobs)

\* C6: removing an event, or moving it, leaves every registered job in the job set.
C6_RemoveAndMoveKeepJobs ==
    [][/\ (Handles /\ reply' = "removed") => jobs' = jobs
       /\ (Handles /\ reply' = "moved") =>
              \A j \in BagToSet(jobs) : CopiesIn(j, jobs') >= CopiesIn(j, jobs)]_vars

\* an event has just been moved, and the job for its prior instant is still held
\* although no event is at that instant any more
C6_Witness ==
    /\ update.kind = "message"
    /\ reply = "moved"
    /\ \E j \in BagToSet(jobs) :
           /\ j.run_date > fromtimestamp(now)
           /\ \A r \in events : JobOf(r) # j

\* C7: right after boot the job set holds exactly one job per stored event (of any
\* owner) whose start - 10 minutes is strictly after now, and no other job.
C7_BootRebuildsExactlyTheFutureJobs ==
    [][update'.kind = "boot" =>
          \A j \in BagToSet(jobs') \cup {JobOf(r) : r \in events'} :
              CopiesIn(j, jobs') =
                  Cardinality({r \in events' : JobOf(r) = j /\ r.start_ts - 600 > now'})]_vars

\* the process has just booted with events of both owners that got their job back
\* and an event whose reminder instant has passed, which got none
C7_Witness ==
    /\ update.kind = "boot"
    /\ \E r1, r2 \in events : /\ r1.user_id = 1 /\ r2.user_id = 2
                              /\ BagIn(JobOf(r1), jobs) /\ BagIn(JobOf(r2), jobs)
    /\ \E r3 \in events : ~BagIn(JobOf(r3), jobs)

\* text t (lower-cased) matches the keywords or pattern of intent i
Matches(i, t) ==
    CASE i = INTENT_MOVE -> \E k \in MOVE_KWS : KwIn(k, t)
      [] i = INTENT_REMOVE -> \E k \in REMOVE_KWS : KwIn(k, t)
      [] i = INTENT_ADD -> (\E k \in ADD_KWS : KwIn(k, t))
                           \/ \E n \in DOMAIN t : MettiAt(t, n) > 0
      [] i = INTENT_RECAP -> (\E k \in RECAP_KWS : KwIn(k, t))
                             \/ t \in {<<"agenda">>, <<"agenda?">>}
      [] i = INTENT_HELP -> \E k \in HELP_KWS : KwIn(k, t)

\* the first intent of order that t matches, unknown when there is none
FirstMatch(order, t) ==
    IF \E n \in DOMAIN order : Matches(order[n], t)
    THEN order[CHOOSE n \in DOMAIN order :
                   Matches(order[n], t) /\ \A m \in 1..(n - 1) : ~Matches(order[m], t)]
    ELSE INTENT_UNKNOWN

\* C8: the classifier returns the first matching intent in the order move, remove,
\* add, recap, help.
C8_PrecedenceMoveRemoveAddRecapHelp ==
    intent # "" =>
        intent = FirstMatch(<<INTENT_MOVE, INTENT_REMOVE, INTENT_ADD, INTENT_RECAP,
                              INTENT_HELP>>, Lower(update.text))

\* C8 (amended): for every text that matches a keyword or pattern of add, move,
\* remove or recap, the classifier returns the first of these it matches in the
\* order add, move, remove, recap.
C8_PrecedenceAddMoveRemoveRecap ==
    (intent # "" /\ \E i \in {INTENT_ADD, INTENT_MOVE, INTENT_REMOVE, INTENT_RECAP} :
                       Matches(i, Lower(update.text))) =>
        intent = FirstMatch(<<INTENT_ADD, INTENT_MOVE, INTENT_REMOVE, INTENT_RECAP>>,
                            Lower(update.text))

\* a text with a move keyword and an add keyword has been classified as add
C8_Witness ==
    /\ intent = INTENT_ADD
    /\ Matches(INTENT_MOVE, Lower(update.text))
    /\ Matches(INTENT_REMOVE, Lower(update.text))

\* C9: an out-of-range digit-only reply while a choice is pending changes neither
\* the pending record nor the store nor the job set, so that a later valid digit
\* resolves as if it had not been sent.
C9_OutOfRangeDigitChangesNothing ==
    [][(DigitWhilePending /\ ~ValidChoice) =>
          /\ user_data' = user_data
          /\ events' = events
          /\ next_id' = next_id
          /\ jobs' = jobs
          /\ now' = now]_vars

\* "3" has just been refused with two candidates pending, which are still pending
C9_Witness ==
    /\ update.kind = "message"
    /\ update.text = <<"3">>
    /\ reply = "invalid_choice"
    /\ Len(user_data[update.user].candidates) = 2

\* the candidates a remove or move request of the message handled resolves to
Resolved ==
    IF intent' = INTENT_REMOVE
    THEN RemoveCandidates(events, update'.user,
                          extract_remove_target_of[update'.text, fromtimestamp(now)], now)
    ELSE ByText(events, update'.user,
                extract_move_targets_of[update'.text, fromtimestamp(now)][1], now)

NewStart == timestamp(extract_move_targets_of[update'.text, fromtimestamp(now)][2])

\* C10: a remove or move request that resolves to exactly one candidate is applied
\* to that event within the same step, and the step opens no disambiguation.
C10_SingleCandidateAppliedAtOnce ==
    [][/\ (Handles /\ intent' = INTENT_REMOVE /\ Len(Resolved) = 1) =>
              /\ events' = {r \in events : r.id # Resolved[1][1]}
              /\ user_data' = user_data
       /\ (Handles /\ intent' = INTENT_MOVE /\ Len(Resolved) = 1
           /\ NewStart # timestamp(None)) =>
              /\ events' = {IF r.id = Resolved[1][1]
                            THEN [r EXCEPT !.start_ts = NewStart] ELSE r : r \in events}
              /\ user_data' = user_data]_vars

\* a remove request has just deleted the only event it matched, another one is left
C10_Witness ==
    /\ update.kind = "message"
    /\ intent = INTENT_REMOVE
    /\ reply = "removed"
    /\ events # {}
    /\ user_data[update.user] = NoPending

\* the outcome of the message handled is an input ambiguity: an add with no date, a
\* move with no new date, a remove or a move with no matching candidate
Ambiguous ==
    \/ intent' = INTENT_ADD /\ extract_datetime_of[update'.text, fromtimestamp(now)] = None
    \/ intent' = INTENT_MOVE /\ NewStart = timestamp(None)
    \/ intent' \in {INTENT_MOVE, INTENT_REMOVE} /\ Resolved = <<>>

\* C11: an input-ambiguity outcome is answered with a clarification or failure
\* reply, and the event store, the job set and the pending state stay as they were.
C11_AmbiguityMutatesNothing ==
    [][(Handles /\ ~IsChoiceText(update'.text) /\ ~IsCommand(update'.text) /\ Ambiguous) =>
          /\ reply' \in {"no_date", "no_new_date", "remove_not_found", "move_not_found"}
          /\ events' = events
          /\ next_id' = next_id
          /\ jobs' = jobs
          /\ user_data' = user_data]_vars

\* a remove request has just found nothing, with events in the store, a job held
\* and a choice pending
C11_Witness ==
    /\ update.kind = "message"
    /\ reply = "remove_not_found"
    /\ events # {}
    /\ jobs # EmptyBag
    /\ user_data[update.user] # NoPending

\* C12: a remove or move request with two or more candidates makes the pending
\* state exactly the record of its action kind, its candidates and (move only) its
\* target instant, whatever was pending before, and leaves the event store and the
\* job set as they were.
C12_SeveralCandidatesReplacePending ==
    [][(/\ Handles /\ ~IsChoiceText(update'.text) /\ ~IsCommand(update'.text)
        /\ intent' \in {INTENT_MOVE, INTENT_REMOVE}
        /\ ~Ambiguous
        /\ Len(Resolved) >= 2) =>
          /\ user_data'[update'.user] =
                 [type |-> intent',
                  candidates |-> Resolved,
                  new_ts |-> IF intent' = INTENT_MOVE THEN NewStart ELSE None]
          /\ \A u \in Users \ {update'.user} : user_data'[u] = user_data[u]
          /\ events' = events
          /\ next_id' = next_id
          /\ jobs' = jobs]_vars

\* a move request has just found two candidates: they are pending with its target
C12_Witness ==
    /\ update.kind = "message"
    /\ reply = "which_move"
    /\ user_data[update.user].type = "move"
    /\ Len(user_data[update.user].candidates) = 2
    /\ user_data[update.user].new_ts = timestamp(SecondsPerDay + ClockOf("10:30"))

\* the job that a step answering "added" or "moved" submits: for the chat of the
\* message, the title stored or chosen, and the (new) start instant
Submitted ==
    IF reply' = "added"
    THEN JobOf([chat_id |-> update'.chat,
                title |-> TitleOrDefault(strip_date_from_title_of[update'.text]),
                start_ts |-> timestamp(extract_datetime_of[update'.text, fromtimestamp(now)])])
    ELSE IF IsChoiceText(update'.text)
    THEN JobOf([chat_id |-> update'.chat, title |-> Candidates[Choice][2],
                start_ts |-> user_data[update'.user].new_ts])
    ELSE JobOf([chat_id |-> update'.chat, title |-> Resolved[1][2], start_ts |-> NewStart])

\* C13: every add, single-match move and move through a numeric choice that is
\* confirmed leaves in the job set, whenever the (new) start instant S has
\* S - 10 minutes strictly after now, one more job for that chat and title with fire
\* instant S - 10 minutes.
C13_AddAndMoveSubmitReminder ==
    [][(Handles /\ reply' \in {"added", "moved"} /\ Submitted.event_ts - 600 > now) =>
          /\ BagIn(Submitted, jobs')
          /\ CopiesIn(Submitted, jobs') = CopiesIn(Submitted, jobs) + 1]_vars

\* a numeric choice has just moved an event to 10:30, and the job for 10:20 is held
C13_Witness ==
    /\ update.kind = "message"
    /\ IsChoiceText(update.text)
    /\ reply = "moved"
    /\ \E j \in BagToSet(jobs) :
           /\ j.chat_id = update.chat
           /\ j.title = <<"Visita">>
           /\ j.run_date = SecondsPerDay + ClockOf("10:30") - 600

\* C14: handling a message of one conversation (a user in a chat) never creates,
\* changes or clears the pending state of another conversation.
C14_PendingScopedPerConversation ==
    [][Handles =>
          \A cv \in ChatConversations \ {<<update'.user, update'.chat>>} :
              user_data'[cv[1]] = user_data[cv[1]]]_vars

\* C14 (amended): pending state is scoped per user: handling a message of one user
\* never creates, changes or clears the pending state of another user.  (The chats
\* of one user share that user's single pending state.)
C14_PendingScopedPerUser ==
    [][Handles => \A u \in Users \ {update'.user} : user_data'[u] = user_data[u]]_vars

\* user 2 has just resolved their pending choice in the group chat, where user 1
\* writes too and still has a choice pending
C14_Witness ==
    /\ update.kind = "message"
    /\ update.user = 2
    /\ update.chat = 3
    /\ reply = "removed"
    /\ IsChoiceText(update.text)
    /\ user_data[2] = NoPending
    /\ Len(user_data[1].candidates) = 2
    /\ \E r \in events : r.user_id = 1 /\ r.chat_id = 3

\* C15: a text that matches a help keyword and no keyword or pattern of another
\* intent is classified as help, and unknown is returned only for a text that
\* matches no keyword or pattern at all.
C15_HelpKeywordGivesHelp ==
    intent # "" =>
        /\ (/\ Matches(INTENT_HELP, Lower(update.text))
            /\ \A i \in {INTENT_ADD, INTENT_MOVE, INTENT_REMOVE, INTENT_RECAP} :
                   ~Matches(i, Lower(update.text)))
           => intent = INTENT_HELP
        /\ intent = INTENT_UNKNOWN =>
               \A i \in {INTENT_ADD, INTENT_MOVE, INTENT_REMOVE, INTENT_RECAP, INTENT_HELP} :
                   ~Matches(i, Lower(update.text))

\* the score of a candidate of query q
ScoreOf(q, cand) == partial_ratio(Lower(q), Lower(cand[2]))

\* candidates c of query q are in descending score order, equal scores in ascending
\* order of start instant
ScoreThenChronological(q, c) ==
    \A i, j \in DOMAIN c :
        i < j => \/ ScoreOf(q, c[i]) > ScoreOf(q, c[j])
                 \/ ScoreOf(q, c[i]) = ScoreOf(q, c[j]) /\ c[i][3] <= c[j][3]

\* C16: the text path returns the candidates that score at least 60 in descending
\* score order, candidates of equal score in ascending order of start instant.
C16_EqualScoresChronological ==
    \A u \in Users :
        /\ \A k \in DOMAIN find_best_matches(events, u, <<"Visita">>, now) :
               ScoreOf(<<"Visita">>, find_best_matches(events, u, <<"Visita">>, now)[k]) >= 60
        /\ ScoreThenChronological(<<"Visita">>,
                                  find_best_matches(events, u, <<"Visita">>, now))

\* remove requests: by title, by time, by both, and with a title that scores nothing
RemoveTexts ==
    { <<"rimuovi", "visita">>,
      <<"rimuovi", "02/01/1970", "alle", "9:30">>,
      <<"rimuovi", "visita", "02/01/1970", "alle", "9:30">>,
      <<"rimuovi", "budget">>,
      <<"rimuovi", "budget", "02/01/1970", "alle", "9:30">>,
      <<"rimuovi", "%">> }

RemoveTargets == [t \in RemoveTexts, n \in Clock |-> extract_remove_target(t, n)]

\* the future events of owner u
FutureOf(u) == {r \in events : r.user_id = u /\ r.start_ts >= now}

\* the ids of those that score at least 60 against title_guess, that contain it,
\* that start within 30 minutes of dt
ScoringIds(u, title_guess) ==
    {r.id : r \in {x \in FutureOf(u) :
                       partial_ratio(Lower(title_guess), Lower(x.title)) >= 60}}

SubstringIds(u, title_guess) == {r.id : r \in {x \in FutureOf(u) : Like(title_guess, x.title)}}

WindowIds(u, dt) ==
    {r.id : r \in {x \in FutureOf(u) : /\ x.start_ts - timestamp(dt) <= 1800
                                       /\ timestamp(dt) - x.start_ts <= 1800}}

Ids(c) == {c[i][1] : i \in DOMAIN c}

\* candidates c of owner u for target = (title_guess, dt) come from the first of the
\* text path by score, the text path by substring, the time path that applies
FallbacksInOrder(u, target, c) ==
    /\ Len(c) = Cardinality(Ids(c))
    /\ IF target[1] # <<>> /\ ScoringIds(u, target[1]) # {}
       THEN /\ Ids(c) \subseteq ScoringIds(u, target[1])
            /\ Len(c) = Min(5, Cardinality(ScoringIds(u, target[1])))
       ELSE IF target[1] # <<>> /\ SubstringIds(u, target[1]) # {}
       THEN Ids(c) = SubstringIds(u, target[1])
       ELSE IF target[2] # None
       THEN Ids(c) = WindowIds(u, target[2])
       ELSE c = <<>>

\* C17: for a remove request, substring matching is consulted only when no event
\* scores at least 60, and the time path only when the text path gave no candidate
\* and a target instant was extracted; the time path gives exactly the owner's
\* future events within 1800 seconds (inclusive) of the target, and adds nothing to
\* a text-path result.
C17_RemoveFallbacksInOrder ==
    \A u \in Users, t \in RemoveTexts :
        FallbacksInOrder(u, RemoveTargets[t, fromtimestamp(now)],
                         RemoveCandidates(events, u, RemoveTargets[t, fromtimestamp(now)], now))

\* a remove request by time has just deleted the one event within 30 minutes of
\* 09:30, and a future event of the owner outside that window is left
C17_Witness ==
    /\ update.kind = "message"
    /\ update.text = <<"rimuovi", "02/01/1970", "alle", "9:30">>
    /\ reply = "removed"
    /\ \E r \in events :
           /\ r.user_id = update.user
           /\ r.start_ts >= now
           /\ r.start_ts - timestamp(SecondsPerDay + ClockOf("9:30")) > 1800

\* what search_dates recognises in the message handled
Recognised == search_dates(update'.text, fromtimestamp(now))

\* C18: extract_datetime replaces the time of day by 09:00 local if and only if the
\* recognised date-time is at midnight and the text holds no explicit clock time,
\* a bare hour H and H:MM both counting as explicit; so the start stored by an add
\* is the recognised instant, or 09:00 of its day in that one case.
C18_DefaultHourIffMidnightAndNoClockTime ==
    [][(Handles /\ intent' = INTENT_ADD /\ reply' = "added") =>
           \A r \in events' \ events :
               r.start_ts =
                   timestamp(IF /\ hour(Recognised) = 0
                                /\ minute(Recognised) = 0
                                /\ ~has_time_bare_hour_too(update'.text)
                             THEN AtDefaultHour(Recognised)
                             ELSE Recognised)]_vars

\* C19: every text message that is not a command is answered, whatever the state
\* of the conversation: also a single digit 1-5 sent while no choice is pending.
C19_EveryTextMessageIsAnswered ==
    [][(Handles /\ ~IsCommand(update'.text)) => reply' # ""]_vars

\* the event picked by the digit of the message handled
Chosen == Candidates[Choice][1]

\* C20: whenever a valid numeric choice is resolved, the chosen candidate is still in
\* the event store at that moment, so every "removed" or "moved" confirmation refers
\* to an event that is present in the store.
C20_ChosenCandidateStillStored ==
    [][(DigitWhilePending /\ ValidChoice) => \E r \in events : r.id = Chosen]_vars

\* C21: every event deleted or re-timed while a message of user U is handled is owned
\* by U: no message of one user deletes, or changes the start of, an event of another.
C21_OnlyOwnEventsDeletedOrRetimed ==
    [][Handles => \A r \in events : r.user_id # update'.user => r \in events']_vars

\* a user has just moved one of two events by a numeric choice, and the other user
\* holds an event of the same title, still at its start
C21_Witness ==
    /\ update.kind = "message"
    /\ IsDigit(update.text)
    /\ reply = "moved"
    /\ \E r \in events : /\ r.user_id # update.user
                         /\ r.title = <<"Visita">>
                         /\ r.start_ts = timestamp(SecondsPerDay + ClockOf("9:00"))

====
